---- MODULE Spec2Model ----
(***************************************************************************)
(* openai-cli (src/cmd/openai-cli/main.go): one process run of the command *)
(* line tool.  A behaviour is one invocation: Init is the process at start *)
(* with the file system as the user and earlier invocations left it, and   *)
(* each action is one registered subcommand run to process exit.  The      *)
(* observable effects of the run are kept, in program order, in `trace`.   *)
(***************************************************************************)
EXTENDS Integers, Sequences, FiniteSets, TLC

VARIABLES pc, inv, openaiKey, fs0, fs, trace, apiResp, writeRes, exit

vars == <<pc, inv, openaiKey, fs0, fs, trace, apiResp, writeRes, exit>>

(* ---------------------------- bounds ----------------------------------- *)
\* longest command line enumerated (cobra.ExactArgs(3) is the largest arity)
MaxArgs == 3
\* longest result list a completion response carries
MaxChoices == 2

(* ---------------------------- values ----------------------------------- *)
FileNames == {"a.png", "output.png"}
\* command-line words: prompts and file names
ArgVals == FileNames
ArgLists == UNION {[1..n -> ArgVals] : n \in 0..MaxArgs}
Keys == {"", "sk-flag"}
EnvKeys == {"", "sk-env"}

\* a Go string / []byte is a sequence of bytes
TextA == <<72, 105>>
TextB == <<79, 75>>
Texts == {TextA, TextB}

NoFile == [exists |-> FALSE, data |-> <<>>]
File(d) == [exists |-> TRUE, data |-> d]

(* --------------------- encoding/base64 (StdEncoding) ------------------- *)
B64Alphabet ==
  <<"A","B","C","D","E","F","G","H","I","J","K","L","M","N","O","P",
    "Q","R","S","T","U","V","W","X","Y","Z","a","b","c","d","e","f",
    "g","h","i","j","k","l","m","n","o","p","q","r","s","t","u","v",
    "w","x","y","z","0","1","2","3","4","5","6","7","8","9","+","/">>
B64Chars == {B64Alphabet[i] : i \in 1..64}
B64Ch(v) == B64Alphabet[v + 1]
B64Val(c) == (CHOOSE i \in 1..64 : B64Alphabet[i] = c) - 1

RECURSIVE EncodeToString(_)
EncodeToString(b) ==
  IF Len(b) = 0 THEN <<>>
  ELSE IF Len(b) = 1 THEN
    <<B64Ch(b[1] \div 4), B64Ch((b[1] % 4) * 16), "=", "=">>
  ELSE IF Len(b) = 2 THEN
    <<B64Ch(b[1] \div 4), B64Ch((b[1] % 4) * 16 + (b[2] \div 16)),
      B64Ch((b[2] % 16) * 4), "=">>
  ELSE
    <<B64Ch(b[1] \div 4), B64Ch((b[1] % 4) * 16 + (b[2] \div 16)),
      B64Ch((b[2] % 16) * 4 + (b[3] \div 64)), B64Ch(b[3] % 64)>>
    \o EncodeToString(SubSeq(b, 4, Len(b)))

\* the bytes of one group of four characters; "=" padding only in the last
\* group, in its last one or two places
QuadOK(q, last) ==
  /\ q[1] \in B64Chars /\ q[2] \in B64Chars
  /\ \/ q[3] \in B64Chars /\ q[4] \in B64Chars
     \/ last /\ q[3] \in B64Chars /\ q[4] = "="
     \/ last /\ q[3] = "=" /\ q[4] = "="
QuadBytes(q) ==
  LET v1 == B64Val(q[1])
      v2 == B64Val(q[2])
      b1 == v1 * 4 + (v2 \div 16)
  IN  IF q[3] = "=" THEN <<b1>>
      ELSE LET v3 == B64Val(q[3])
               b2 == (v2 % 16) * 16 + (v3 \div 4)
           IN  IF q[4] = "=" THEN <<b1, b2>>
               ELSE <<b1, b2, (v3 % 4) * 64 + B64Val(q[4])>>

RECURSIVE DecodeQuads(_)
DecodeQuads(s) ==
  IF Len(s) = 0 THEN [err |-> "", data |-> <<>>]
  ELSE IF Len(s) < 4 \/ ~QuadOK(SubSeq(s, 1, 4), Len(s) = 4)
       THEN [err |-> "illegal base64 data", data |-> <<>>]
  ELSE LET rest == DecodeQuads(SubSeq(s, 5, Len(s)))
       IN  IF rest.err # "" THEN rest
           ELSE [err |-> "", data |-> QuadBytes(SubSeq(s, 1, 4)) \o rest.data]

DecodeString(s) == DecodeQuads(s)

(* --------------------------- image, image/png -------------------------- *)
PngSignature == <<137, 80, 78, 71, 13, 10, 26, 10>>
JpegSignature == <<255, 216, 255>>
\* a PNG file: signature, the compression level its encoder used, the pixels
DefaultCompression == <<0>>
BestCompression == <<9>>
IsPrefix(p, s) == Len(p) <= Len(s) /\ SubSeq(s, 1, Len(p)) = p

\* image.Decode: only the formats registered by an import decode; main.go
\* imports image/png alone
ImageDecode(b) ==
  IF IsPrefix(PngSignature, b) /\ Len(b) > Len(PngSignature) + 1
  THEN [err |-> "", img |-> SubSeq(b, Len(PngSignature) + 2, Len(b))]
  ELSE [err |-> "image: unknown format", img |-> <<>>]

\* png.Encode with the default encoder
PngEncode(img) == PngSignature \o DefaultCompression \o img

(* ------------------------------ encoding/json -------------------------- *)
JsonPrefix == <<"{", "\"", "d", "a", "t", "a", "\"", ":", "\"">>
JsonSuffix == <<"\"", "}">>
JsonNull == <<"n", "u", "l", "l">>
JsonWrap(s) == JsonPrefix \o s \o JsonSuffix

\* json.Unmarshal into struct{ Data string `json:"data"` }, on the texts of
\* this model (base64 text, null, {"data":"..."}): null leaves the zero value,
\* an object with a "data" string sets it, anything else is no JSON value or
\* no JSON object and is an error
JsonUnmarshal(s) ==
  IF s = JsonNull THEN [err |-> "", Data |-> <<>>]
  ELSE IF /\ Len(s) >= Len(JsonPrefix) + Len(JsonSuffix)
          /\ IsPrefix(JsonPrefix, s)
          /\ SubSeq(s, Len(s) - 1, Len(s)) = JsonSuffix
          /\ \A i \in (Len(JsonPrefix) + 1)..(Len(s) - 2) : s[i] # "\""
       THEN [err |-> "", Data |-> SubSeq(s, Len(JsonPrefix) + 1, Len(s) - 2)]
  ELSE [err |-> "json: cannot unmarshal", Data |-> <<>>]

(* ---------------------------- strToImageBytes -------------------------- *)
strToImageBytes(input) ==
  LET j == JsonUnmarshal(input) IN
  IF j.err # "" THEN [err |-> j.err, bytes |-> <<>>]
  ELSE LET d == DecodeString(j.Data) IN
  IF d.err # "" THEN [err |-> d.err, bytes |-> <<>>]
  ELSE LET i == ImageDecode(d.data) IN
  IF i.err # "" THEN [err |-> i.err, bytes |-> <<>>]
  ELSE [err |-> "", bytes |-> PngEncode(i.img)]

(* ------------------------- os, io/ioutil ------------------------------- *)
\* ioutil.ReadFile / os.Open of a path
ReadFile(fsys, name) ==
  IF fsys[name].exists THEN [err |-> "", data |-> fsys[name].data]
  ELSE [err |-> "open: no such file or directory", data |-> <<>>]

\* ioutil.WriteFile opens with O_WRONLY|O_CREATE|O_TRUNC, writes, closes.
\* The environment decides the write: it succeeds, the open fails (nothing
\* is touched), or the write fails after the file was truncated.
WriteOutcomes == {"ok", "open failed", "write failed"}
OpenDenied == "open: permission denied"
WriteFile(fsys, name, data, wr) ==
  IF wr = "ok" THEN [err |-> "", fs |-> [fsys EXCEPT ![name] = File(data)]]
  ELSE IF wr = "open failed" THEN [err |-> OpenDenied, fs |-> fsys]
  ELSE [err |-> "write: no space left on device",
        fs |-> [fsys EXCEPT ![name] = File(<<>>)]]

(* --------------------------- remote API -------------------------------- *)
\* what a client method returns: an error, or a result list (Choices of a
\* completion, Data of an image response, the one Text of a transcription)
ApiError == "error, status code: 500"
Resp(err, items) == [called |-> TRUE, err |-> err, items |-> items]
NoResp == [called |-> FALSE, err |-> "", items |-> <<>>]
ChoiceLists == UNION {[1..n -> Texts] : n \in 0..MaxChoices}
CompletionResponses == {Resp(ApiError, <<>>)} \cup {Resp("", l) : l \in ChoiceLists}
TranscriptionResponses == {Resp(ApiError, <<>>)} \cup {Resp("", <<t>>) : t \in Texts}

\* images as files, and the B64JSON payloads an image response may carry
UserPng == PngSignature \o BestCompression \o <<7, 7>>
UserJpeg == JpegSignature \o <<7, 7>>
NotAnImage == <<1, 2, 3>>
\* the images image.Decode of this build accepts
ValidImages == {UserPng}
Payloads ==
  { EncodeToString(UserPng),                \* base64 of image bytes
    EncodeToString(UserJpeg),               \* a format that is not registered
    EncodeToString(NotAnImage),
    JsonWrap(EncodeToString(UserPng)),      \* {"data":"<base64>"}
    JsonWrap(EncodeToString(NotAnImage)),
    JsonWrap(<<"Q", "U", "J">>),            \* not base64: length 3
    JsonNull,
    <<>> }                                  \* response in URL format
ImageResponses ==
  {Resp(ApiError, <<>>), Resp("", <<>>)} \cup {Resp("", <<p>>) : p \in Payloads}

Commands ==
  {"dialogue", "image-recognition", "image-generation", "image-editing",
   "audio-generation", "audio-transcription", "code-generation"}
\* CreateTranscription opens request.FilePath itself before it sends anything
CreateTranscription(fsys, path, resp) ==
  IF fsys[path].exists THEN resp
  ELSE Resp("open: no such file or directory", <<>>)

(* ------------------------- effects of a run ---------------------------- *)
Ev(ev, s, name, data) == [ev |-> ev, s |-> s, name |-> name, data |-> data]
Result(tr, fsys, resp, code) == [trace |-> tr, fs |-> fsys, resp |-> resp, exit |-> code]
\* log.Fatal: print to stderr, os.Exit(1)
Fatal(tr, msg, fsys, resp) ==
  Result(tr \o <<Ev("stderr", msg, "", <<>>)>>, fsys, resp, 1)
\* a runtime panic: print the panic, exit status 2
IndexOutOfRange == "panic: runtime error: index out of range [0] with length 0"
ArgOutOfRange == "panic: runtime error: index out of range (args)"
Panic(tr, msg, fsys, resp) ==
  Result(tr \o <<Ev("panic", msg, "", <<>>)>>, fsys, resp, 2)
Println(s, name, data) == Ev("stdout", s, name, data)
CallEv(endpoint, model, body) == Ev("call", endpoint, model, body)

ClientEv(c) == Ev("getClient", c.key, "", <<>>)

(* ------------------------------- getClient ----------------------------- *)
KeyNotFound == "OpenAI API key not found. Set it using --key or OPENAI_API_KEY environment variable"
\* mutant: the environment variable takes precedence over the flag
getClient_envFirst(flagKey, env) ==
  LET key == IF env = "" THEN flagKey ELSE env
  IN  [ok |-> key # "", key |-> key]
getClient(flagKey, env) ==
  LET key == IF flagKey = "" THEN env ELSE flagKey
  IN  [ok |-> key # "", key |-> key]

(* ------------------------------- handlers ------------------------------ *)
\* mutant: only the first choice is printed
dialogue_firstOnly(args, flagKey, env, fsys, resp, wr) ==
  LET c == getClient(flagKey, env) IN
  IF ~c.ok THEN Fatal(<<>>, KeyNotFound, fsys, NoResp) ELSE
  LET t1 == <<ClientEv(c)>> IN
  IF Len(args) < 1 THEN Panic(t1, ArgOutOfRange, fsys, NoResp) ELSE
  LET t2 == t1 \o <<CallEv("CreateCompletion", "text-davinci-003", <<args[1]>>)>> IN
  IF resp.err # "" THEN Fatal(t2, resp.err, fsys, resp) ELSE
  IF Len(resp.items) = 0 THEN Result(t2, fsys, resp, 0) ELSE
  Result(t2 \o <<Println("", "", resp.items[1])>>, fsys, resp, 0)

dialogue(args, flagKey, env, fsys, resp, wr) ==
  LET c == getClient(flagKey, env) IN
  IF ~c.ok THEN Fatal(<<>>, KeyNotFound, fsys, NoResp) ELSE
  LET t1 == <<ClientEv(c)>> IN
  IF Len(args) < 1 THEN Panic(t1, ArgOutOfRange, fsys, NoResp) ELSE
  LET t2 == t1 \o <<CallEv("CreateCompletion", "text-davinci-003", <<args[1]>>)>> IN
  IF resp.err # "" THEN Fatal(t2, resp.err, fsys, resp) ELSE
  Result(t2 \o [i \in 1..Len(resp.items) |-> Println("", "", resp.items[i])],
         fsys, resp, 0)

imageRecognition(args, flagKey, env, fsys, resp, wr) ==
  LET c == getClient(flagKey, env) IN
  IF ~c.ok THEN Fatal(<<>>, KeyNotFound, fsys, NoResp) ELSE
  LET t1 == <<ClientEv(c)>> IN
  IF Len(args) < 1 THEN Panic(t1, ArgOutOfRange, fsys, NoResp) ELSE
  LET f == ReadFile(fsys, args[1])
      t2 == t1 \o <<Ev("read", f.err, args[1], f.data)>> IN
  IF f.err # "" THEN Fatal(t2, f.err, fsys, NoResp) ELSE
  LET t3 == t2 \o <<CallEv("CreateCompletion", "image-alpha-001", EncodeToString(f.data))>> IN
  IF resp.err # "" THEN Fatal(t3, resp.err, fsys, resp) ELSE
  IF Len(resp.items) = 0 THEN Panic(t3, IndexOutOfRange, fsys, resp) ELSE
  Result(t3 \o <<Println("", "", resp.items[1])>>, fsys, resp, 0)

\* mutant: "Image saved" is printed before the file is written
imageGeneration_savedBeforeWrite(args, flagKey, env, fsys, resp, wr) ==
  LET c == getClient(flagKey, env) IN
  IF ~c.ok THEN Fatal(<<>>, KeyNotFound, fsys, NoResp) ELSE
  LET t1 == <<ClientEv(c)>> IN
  IF Len(args) < 1 THEN Panic(t1, ArgOutOfRange, fsys, NoResp) ELSE
  LET t2 == t1 \o <<CallEv("CreateImage", "b64_json", <<args[1]>>)>> IN
  IF resp.err # "" THEN Fatal(t2, "no result, no image data", fsys, resp) ELSE
  IF Len(resp.items) = 0 THEN Fatal(t2, "", fsys, resp) ELSE
  LET b == strToImageBytes(resp.items[1]) IN
  IF b.err # "" THEN Fatal(t2, b.err, fsys, resp) ELSE
  LET w == WriteFile(fsys, "output.png", b.bytes, wr)
      t3 == t2 \o <<Println("Image saved to", "output.png", <<>>),
                    Ev("write", w.err, "output.png", b.bytes)>> IN
  IF w.err # "" THEN Fatal(t3, w.err, w.fs, resp) ELSE
  Result(t3, w.fs, resp, 0)

\* mutant: an output.png left by an earlier run is reused instead of asking
\* the API again
imageGeneration_cached(args, flagKey, env, fsys, resp, wr) ==
  LET c == getClient(flagKey, env) IN
  IF ~c.ok THEN Fatal(<<>>, KeyNotFound, fsys, NoResp) ELSE
  LET t1 == <<ClientEv(c)>> IN
  IF Len(args) < 1 THEN Panic(t1, ArgOutOfRange, fsys, NoResp) ELSE
  IF fsys["output.png"].exists
  THEN Result(t1 \o <<Println("Image saved to", "output.png", <<>>)>>, fsys, NoResp, 0) ELSE
  LET t2 == t1 \o <<CallEv("CreateImage", "b64_json", <<args[1]>>)>> IN
  IF resp.err # "" THEN Fatal(t2, "no result, no image data", fsys, resp) ELSE
  IF Len(resp.items) = 0 THEN Fatal(t2, "", fsys, resp) ELSE
  LET b == strToImageBytes(resp.items[1]) IN
  IF b.err # "" THEN Fatal(t2, b.err, fsys, resp) ELSE
  LET w == WriteFile(fsys, "output.png", b.bytes, wr)
      t3 == t2 \o <<Ev("write", w.err, "output.png", b.bytes)>> IN
  IF w.err # "" THEN Fatal(t3, w.err, w.fs, resp) ELSE
  Result(t3 \o <<Println("Image saved to", "output.png", <<>>)>>, w.fs, resp, 0)

imageGeneration(args, flagKey, env, fsys, resp, wr) ==
  LET c == getClient(flagKey, env) IN
  IF ~c.ok THEN Fatal(<<>>, KeyNotFound, fsys, NoResp) ELSE
  LET t1 == <<ClientEv(c)>> IN
  IF Len(args) < 1 THEN Panic(t1, ArgOutOfRange, fsys, NoResp) ELSE
  LET t2 == t1 \o <<CallEv("CreateImage", "b64_json", <<args[1]>>)>> IN
  IF resp.err # "" THEN Fatal(t2, "no result, no image data", fsys, resp) ELSE
  IF Len(resp.items) = 0 THEN Fatal(t2, "", fsys, resp) ELSE
  LET b == strToImageBytes(resp.items[1]) IN
  IF b.err # "" THEN Fatal(t2, b.err, fsys, resp) ELSE
  LET w == WriteFile(fsys, "output.png", b.bytes, wr)
      t3 == t2 \o <<Ev("write", w.err, "output.png", b.bytes)>> IN
  IF w.err # "" THEN Fatal(t3, w.err, w.fs, resp) ELSE
  Result(t3 \o <<Println("Image saved to", "output.png", <<>>)>>, w.fs, resp, 0)

\* mutant: the result is written to inputFile instead of outputFile
imageEditing_writesInput(args, flagKey, env, fsys, resp, wr) ==
  LET c == getClient(flagKey, env) IN
  IF ~c.ok THEN Fatal(<<>>, KeyNotFound, fsys, NoResp) ELSE
  LET t1 == <<ClientEv(c)>> IN
  IF Len(args) < 3 THEN Panic(t1, ArgOutOfRange, fsys, NoResp) ELSE
  LET f == ReadFile(fsys, args[1])
      t2 == t1 \o <<Ev("read", f.err, args[1], f.data)>> IN
  IF f.err # "" THEN Fatal(t2, f.err, fsys, NoResp) ELSE
  LET t3 == t2 \o <<CallEv("CreateEditImage", "", <<args[2]>>)>> IN
  IF resp.err # "" THEN Fatal(t3, resp.err, fsys, resp) ELSE
  IF Len(resp.items) = 0 THEN Fatal(t3, "no result, no image edited", fsys, resp) ELSE
  LET b == strToImageBytes(resp.items[1]) IN
  IF b.err # "" THEN Fatal(t3, b.err, fsys, resp) ELSE
  LET w == WriteFile(fsys, args[1], b.bytes, wr)
      t4 == t3 \o <<Ev("write", w.err, args[1], b.bytes)>> IN
  IF w.err # "" THEN Fatal(t4, w.err, w.fs, resp) ELSE
  Result(t4 \o <<Println("Image saved to", args[3], <<>>)>>, w.fs, resp, 0)

imageEditing(args, flagKey, env, fsys, resp, wr) ==
  LET c == getClient(flagKey, env) IN
  IF ~c.ok THEN Fatal(<<>>, KeyNotFound, fsys, NoResp) ELSE
  LET t1 == <<ClientEv(c)>> IN
  IF Len(args) < 3 THEN Panic(t1, ArgOutOfRange, fsys, NoResp) ELSE
  LET f == ReadFile(fsys, args[1])
      t2 == t1 \o <<Ev("read", f.err, args[1], f.data)>> IN
  IF f.err # "" THEN Fatal(t2, f.err, fsys, NoResp) ELSE
  LET t3 == t2 \o <<CallEv("CreateEditImage", "", <<args[2]>>)>> IN
  IF resp.err # "" THEN Fatal(t3, resp.err, fsys, resp) ELSE
  IF Len(resp.items) = 0 THEN Fatal(t3, "no result, no image edited", fsys, resp) ELSE
  LET b == strToImageBytes(resp.items[1]) IN
  IF b.err # "" THEN Fatal(t3, b.err, fsys, resp) ELSE
  LET w == WriteFile(fsys, args[3], b.bytes, wr)
      t4 == t3 \o <<Ev("write", w.err, args[3], b.bytes)>> IN
  IF w.err # "" THEN Fatal(t4, w.err, w.fs, resp) ELSE
  Result(t4 \o <<Println("Image saved to", args[3], <<>>)>>, w.fs, resp, 0)

audioGeneration(args, flagKey, env, fsys, resp, wr) ==
  LET c == getClient(flagKey, env) IN
  IF ~c.ok THEN Fatal(<<>>, KeyNotFound, fsys, NoResp) ELSE
  LET t1 == <<ClientEv(c)>> IN
  IF Len(args) < 2 THEN Panic(t1, ArgOutOfRange, fsys, NoResp) ELSE
  LET t2 == t1 \o <<CallEv("CreateCompletion", "whisper-3", <<args[1]>>)>> IN
  IF resp.err # "" THEN Fatal(t2, resp.err, fsys, resp) ELSE
  IF Len(resp.items) = 0 THEN Panic(t2, IndexOutOfRange, fsys, resp) ELSE
  LET w == WriteFile(fsys, args[2], resp.items[1], wr)
      t3 == t2 \o <<Ev("write", w.err, args[2], resp.items[1])>> IN
  IF w.err # "" THEN Fatal(t3, w.err, w.fs, resp) ELSE
  Result(t3 \o <<Println("Audio saved to", args[2], <<>>)>>, w.fs, resp, 0)

audioTranscription(args, flagKey, env, fsys, resp, wr) ==
  LET c == getClient(flagKey, env) IN
  IF ~c.ok THEN Fatal(<<>>, KeyNotFound, fsys, NoResp) ELSE
  LET t1 == <<ClientEv(c)>> IN
  IF Len(args) < 1 THEN Panic(t1, ArgOutOfRange, fsys, NoResp) ELSE
  LET r == CreateTranscription(fsys, args[1], resp)
      t2 == t1 \o <<CallEv("CreateTranscription", "whisper-3", <<args[1]>>)>> IN
  IF r.err # "" THEN Fatal(t2, r.err, fsys, r) ELSE
  Result(t2 \o <<Println("", "", r.items[1])>>, fsys, r, 0)

codeGeneration(args, flagKey, env, fsys, resp, wr) ==
  LET c == getClient(flagKey, env) IN
  IF ~c.ok THEN Fatal(<<>>, KeyNotFound, fsys, NoResp) ELSE
  LET t1 == <<ClientEv(c)>> IN
  IF Len(args) < 1 THEN Panic(t1, ArgOutOfRange, fsys, NoResp) ELSE
  LET t2 == t1 \o <<CallEv("CreateCompletion", "davinci-codex-002", <<args[1]>>)>> IN
  IF resp.err # "" THEN Fatal(t2, resp.err, fsys, resp) ELSE
  IF Len(resp.items) = 0 THEN Panic(t2, IndexOutOfRange, fsys, resp) ELSE
  Result(t2 \o <<Println("", "", resp.items[1])>>, fsys, resp, 0)

(* --------------------------------- main -------------------------------- *)
\* cobra.ExactArgs(n); a command registered without Args takes any arguments
ExactArgs(n, args) == Len(args) = n
UsageError == "Error: accepts a fixed number of arg(s)"
\* the Args each subcommand is registered with (0: none registered)
ArgsOf(cmd) ==
  CASE cmd = "dialogue" -> 0
    [] cmd = "image-editing" -> 3
    [] cmd = "audio-generation" -> 2
    [] OTHER -> 1
ArgsValid(cmd, args) == cmd = "dialogue" \/ ExactArgs(ArgsOf(cmd), args)
\* Execute runs the handler when Args accepts the command line; its error
\* goes to log.Fatal
Validated(valid, r, fsys) ==
  IF valid THEN r ELSE Fatal(<<>>, UsageError, fsys, NoResp)

\* the seven cobra.Command values: Args, then Run
dialogueCmd(args, flagKey, env, fsys, resp, wr) ==
  dialogue(args, flagKey, env, fsys, resp, wr)
imageRecognitionCmd(args, flagKey, env, fsys, resp, wr) ==
  Validated(ExactArgs(1, args), imageRecognition(args, flagKey, env, fsys, resp, wr), fsys)
imageGenerationCmd(args, flagKey, env, fsys, resp, wr) ==
  Validated(ExactArgs(1, args), imageGeneration(args, flagKey, env, fsys, resp, wr), fsys)
imageEditingCmd(args, flagKey, env, fsys, resp, wr) ==
  Validated(ExactArgs(3, args), imageEditing(args, flagKey, env, fsys, resp, wr), fsys)
audioGenerationCmd(args, flagKey, env, fsys, resp, wr) ==
  Validated(ExactArgs(2, args), audioGeneration(args, flagKey, env, fsys, resp, wr), fsys)
audioTranscriptionCmd(args, flagKey, env, fsys, resp, wr) ==
  Validated(ExactArgs(1, args), audioTranscription(args, flagKey, env, fsys, resp, wr), fsys)
codeGenerationCmd(args, flagKey, env, fsys, resp, wr) ==
  Validated(ExactArgs(1, args), codeGeneration(args, flagKey, env, fsys, resp, wr), fsys)

\* rootCmd.Execute(): parse --key into openaiKey, find the subcommand
main(cmd, args, flagKey, env, fsys, resp, wr) ==
  CASE cmd = "dialogue" -> dialogueCmd(args, flagKey, env, fsys, resp, wr)
    [] cmd = "image-recognition" -> imageRecognitionCmd(args, flagKey, env, fsys, resp, wr)
    [] cmd = "image-generation" -> imageGenerationCmd(args, flagKey, env, fsys, resp, wr)
    [] cmd = "image-editing" -> imageEditingCmd(args, flagKey, env, fsys, resp, wr)
    [] cmd = "audio-generation" -> audioGenerationCmd(args, flagKey, env, fsys, resp, wr)
    [] cmd = "audio-transcription" -> audioTranscriptionCmd(args, flagKey, env, fsys, resp, wr)
    [] cmd = "code-generation" -> codeGenerationCmd(args, flagKey, env, fsys, resp, wr)

(* ------------------------------ the process ---------------------------- *)
NoInv == [cmd |-> "", args |-> <<>>, flag |-> "", env |-> ""]

\* what a file can hold when the process starts: nothing, an image of the
\* user's, or what an earlier run of this program left there
InitFiles ==
  {NoFile, File(UserPng), File(PngEncode(ImageDecode(UserPng).img)),
   File(TextA), File(<<>>)}

Init ==
  /\ pc = "start"
  /\ inv = NoInv
  /\ openaiKey = ""
  /\ fs0 \in [FileNames -> InitFiles]
  /\ fs = fs0
  /\ trace = <<>>
  /\ apiResp = NoResp
  /\ writeRes = "none"
  /\ exit = -1

\* the process runs to exit with the effects r of its subcommand
Exec(cmd, args, flagKey, env, wr, r) ==
  /\ inv' = [cmd |-> cmd, args |-> args, flag |-> flagKey, env |-> env]
  /\ openaiKey' = flagKey
  /\ trace' = r.trace
  /\ fs' = r.fs
  /\ apiResp' = r.resp
  /\ writeRes' = IF \E i \in 1..Len(r.trace) : r.trace[i].ev = "write"
                 THEN wr ELSE "none"
  /\ exit' = r.exit
  /\ pc' = "exited"
  /\ UNCHANGED fs0

RunDialogue ==
  /\ pc = "start"
  /\ \E args \in ArgLists, flagKey \in Keys, env \in EnvKeys,
        resp \in CompletionResponses, wr \in WriteOutcomes :
       Exec("dialogue", args, flagKey, env, wr,
            dialogueCmd(args, flagKey, env, fs, resp, wr))

RunImageRecognition ==
  /\ pc = "start"
  /\ \E args \in ArgLists, flagKey \in Keys, env \in EnvKeys,
        resp \in CompletionResponses, wr \in WriteOutcomes :
       Exec("image-recognition", args, flagKey, env, wr,
            imageRecognitionCmd(args, flagKey, env, fs, resp, wr))

RunImageGeneration ==
  /\ pc = "start"
  /\ \E args \in ArgLists, flagKey \in Keys, env \in EnvKeys,
        resp \in ImageResponses, wr \in WriteOutcomes :
       Exec("image-generation", args, flagKey, env, wr,
            imageGenerationCmd(args, flagKey, env, fs, resp, wr))

RunImageEditing ==
  /\ pc = "start"
  /\ \E args \in ArgLists, flagKey \in Keys, env \in EnvKeys,
        resp \in ImageResponses, wr \in WriteOutcomes :
       Exec("image-editing", args, flagKey, env, wr,
            imageEditingCmd(args, flagKey, env, fs, resp, wr))

RunAudioGeneration ==
  /\ pc = "start"
  /\ \E args \in ArgLists, flagKey \in Keys, env \in EnvKeys,
        resp \in CompletionResponses, wr \in WriteOutcomes :
       Exec("audio-generation", args, flagKey, env, wr,
            audioGenerationCmd(args, flagKey, env, fs, resp, wr))

RunAudioTranscription ==
  /\ pc = "start"
  /\ \E args \in ArgLists, flagKey \in Keys, env \in EnvKeys,
        resp \in TranscriptionResponses, wr \in WriteOutcomes :
       Exec("audio-transcription", args, flagKey, env, wr,
            audioTranscriptionCmd(args, flagKey, env, fs, resp, wr))

RunCodeGeneration ==
  /\ pc = "start"
  /\ \E args \in ArgLists, flagKey \in Keys, env \in EnvKeys,
        resp \in CompletionResponses, wr \in WriteOutcomes :
       Exec("code-generation", args, flagKey, env, wr,
            codeGenerationCmd(args, flagKey, env, fs, resp, wr))

Next ==
  \/ RunDialogue
  \/ RunImageRecognition
  \/ RunImageGeneration
  \/ RunImageEditing
  \/ RunAudioGeneration
  \/ RunAudioTranscription
  \/ RunCodeGeneration

Spec == Init /\ [][Next]_vars

(* ----------------------- views of the finished run --------------------- *)
Ran == pc = "exited"
Events(kind) == SelectSeq(trace, LAMBDA e : e.ev = kind)
Calls == Events("call")
Reads == Events("read")
Writes == Events("write")
Stdout == Events("stdout")
Stderr == Events("stderr")
Panics == Events("panic")
KeyResolved == Len(Events("getClient")) > 0
StdoutLines == [i \in 1..Len(Stdout) |-> Stdout[i].data]
SavedMessages == SelectSeq(Stdout, LAMBDA e : e.s # "")
Before(i, kind) == \E j \in 1..(i - 1) : trace[j].ev = kind

TextCommands == {"dialogue", "image-recognition", "audio-transcription", "code-generation"}
FileCommands == {"image-generation", "image-editing", "audio-generation"}
ImageCommands == {"image-generation", "image-editing"}
InputCommands == {"image-recognition", "image-editing", "audio-transcription"}
\* the commands that index the first element of the result list
IndexingCommands ==
  {"image-recognition", "audio-generation", "code-generation",
   "image-generation", "image-editing"}
\* the highest argument a handler reads, counted from one
ArgsRead(cmd) ==
  CASE cmd = "image-editing" -> 3
    [] cmd = "audio-generation" -> 2
    [] OTHER -> 1
OutputName(cmd, args) ==
  CASE cmd = "image-generation" -> "output.png"
    [] cmd = "image-editing" -> args[3]
    [] cmd = "audio-generation" -> args[2]
HandlerRan == Ran /\ ArgsValid(inv.cmd, inv.args)
HasInputFile == HandlerRan /\ inv.cmd \in InputCommands
ApiSucceeded == apiResp.called /\ apiResp.err = ""

(* -------------------------------- claims ------------------------------- *)

\* C1: every run calls the remote API at most once, and exactly once
\* whenever the key resolves and the input file, if any, can be read.
C1_OneCallPerRun ==
  Ran =>
    /\ Len(Calls) <= 1
    /\ ( /\ KeyResolved
         /\ (inv.cmd \in InputCommands => fs0[inv.args[1]].exists) )
       => Len(Calls) = 1

\* C2: getClient uses a non-empty --key even when OPENAI_API_KEY is set,
\* uses OPENAI_API_KEY only when the flag is empty, and with both empty the
\* run ends in a fatal error before any file is read or any call is made.
C2_KeyResolution ==
  Ran =>
    /\ openaiKey = inv.flag
    /\ (HandlerRan /\ inv.flag # "")
         => /\ KeyResolved
            /\ trace[1] = ClientEv([ok |-> TRUE, key |-> inv.flag])
    /\ (HandlerRan /\ inv.flag = "" /\ inv.env # "")
         => /\ KeyResolved
            /\ trace[1] = ClientEv([ok |-> TRUE, key |-> inv.env])
    /\ (inv.flag = "" /\ inv.env = "")
         => /\ exit = 1
            /\ ~KeyResolved
            /\ Len(Reads) = 0 /\ Len(Calls) = 0 /\ ~apiResp.called
            /\ Len(Stderr) = 1
            /\ HandlerRan => Stderr[1].s = KeyNotFound
            /\ fs = fs0
C2_Witness ==
  /\ Ran /\ inv.flag # "" /\ inv.env # "" /\ inv.flag # inv.env
  /\ Len(Calls) = 1
  /\ Events("getClient")[1].s = inv.flag

\* the error the failing step of the run produced, "" when no step failed
TransformError ==
  IF inv.cmd \in ImageCommands /\ ApiSucceeded /\ Len(apiResp.items) > 0
  THEN strToImageBytes(apiResp.items[1]).err ELSE ""
StepError ==
  IF Len(Reads) > 0 /\ Reads[1].s # "" THEN Reads[1].s
  ELSE IF apiResp.called /\ apiResp.err # "" THEN apiResp.err
  ELSE IF TransformError # "" THEN TransformError
  ELSE IF Len(Writes) > 0 /\ Writes[1].s # "" THEN Writes[1].s
  ELSE ""
EmptyResult ==
  inv.cmd \in IndexingCommands /\ ApiSucceeded /\ Len(apiResp.items) = 0

\* C3: whichever step fails with an error (input unreadable, API error,
\* transform, file write), the run prints that step's error and exits with a
\* failure status, without a written output file and without a success
\* message.  (The empty result list is the case of C10.)
C3_PrintErrorAndExit ==
  (Ran /\ StepError # "") =>
    /\ exit # 0
    /\ Len(Stderr) = 1
    /\ Stderr[1].s = StepError
    /\ \A i \in 1..Len(Writes) : Writes[i].s # ""
    /\ Len(SavedMessages) = 0

\* C4: resolve key -> build request -> call -> transform -> write, in that
\* order: no call before the key is resolved, no output of any kind before
\* the call has returned successfully, and the "saved to" message only
\* after the file write has succeeded.
C4_LinearSequence ==
  Ran =>
    /\ \A i \in 1..Len(trace) :
         /\ trace[i].ev = "call" => Before(i, "getClient")
         /\ trace[i].ev \in {"stdout", "write"}
              => Before(i, "call") /\ ApiSucceeded
         /\ (trace[i].ev = "stdout" /\ trace[i].s # "")
              => \E j \in 1..(i - 1) :
                   /\ trace[j].ev = "write" /\ trace[j].s = ""
                   /\ trace[j].name = trace[i].name
                   /\ fs[trace[j].name] = File(trace[j].data)
    /\ fs # fs0 => Len(Writes) > 0
    /\ exit = 0 => KeyResolved /\ Len(Calls) = 1 /\ ApiSucceeded
    /\ (exit = 0 /\ inv.cmd \in FileCommands)
         => Len(Writes) = 1 /\ Len(SavedMessages) = 1
C4_Witness ==
  /\ Ran /\ inv.cmd = "image-editing" /\ exit = 0
  /\ Len(SavedMessages) = 1 /\ Len(Writes) = 1

\* the parts of C5 that do not speak of the input file
C5_Common ==
  /\ (HandlerRan /\ inv.cmd \in TextCommands) => fs = fs0 /\ Len(Writes) = 0
  /\ (Ran /\ exit = 0 /\ inv.cmd \in FileCommands)
       => /\ Len(Writes) = 1
          /\ Writes[1].name = OutputName(inv.cmd, inv.args)
          /\ fs = [fs0 EXCEPT ![Writes[1].name] = File(Writes[1].data)]
  /\ Ran => /\ Len(Writes) <= 1
            /\ \A n \in FileNames :
                 fs[n] # fs0[n] => Len(Writes) = 1 /\ Writes[1].name = n
InputFileModified == HasInputFile /\ fs[inv.args[1]] # fs0[inv.args[1]]

\* C5 as claimed: text subcommands touch no file, a successful file
\* subcommand writes exactly its one output file, and no run writes more
\* than one file or modifies its input file.
C5_Destinations == C5_Common /\ ~InputFileModified

\* C5 amended: as claimed, except that image-editing overwrites its input
\* file when the user names that same file as the output file.
C5_DestinationsAmended ==
  /\ C5_Common
  /\ InputFileModified
       => inv.cmd = "image-editing" /\ inv.args[1] = inv.args[3]
C5_Witness ==
  /\ Ran /\ inv.cmd = "image-editing" /\ exit = 0
  /\ inv.args[1] # inv.args[3]
  /\ fs[inv.args[3]] # fs0[inv.args[3]]
  /\ fs[inv.args[1]] = fs0[inv.args[1]]

\* C6: for image-generation and image-editing, a first payload that is the
\* base64 encoding of the bytes of a valid image is transformed successfully
\* and the resulting PNG bytes are what is written to the output file.
C6_Base64PayloadTransforms ==
  ( /\ Ran /\ inv.cmd \in ImageCommands /\ ApiSucceeded
    /\ Len(apiResp.items) > 0
    /\ apiResp.items[1] \in {EncodeToString(b) : b \in ValidImages} )
  => /\ Len(Writes) = 1
     /\ IsPrefix(PngSignature, Writes[1].data)
     /\ Writes[1].s = "" => fs[Writes[1].name] = File(Writes[1].data)

\* what a run shows to the outside: console, exit status, and the name and
\* contents of the file written (none when the file could not be opened)
Outcome(r) ==
  [ out |-> SelectSeq(r.trace, LAMBDA e : e.ev \in {"stdout", "stderr", "panic"}),
    exit |-> r.exit,
    written |-> { [name |-> r.trace[i].name, file |-> r.fs[r.trace[i].name]] :
                    i \in {j \in 1..Len(r.trace) :
                             r.trace[j].ev = "write" /\ r.trace[j].s # OpenDenied} } ]
ThisRun == [trace |-> trace, fs |-> fs, resp |-> apiResp, exit |-> exit]
\* the file systems a run with the same input file contents could start from
SameInputFile(fsys) ==
  (HasInputFile /\ inv.args[1] \in FileNames)
     => fsys[inv.args[1]] = fs0[inv.args[1]]
Worlds == {fsys \in [FileNames -> InitFiles] : SameInputFile(fsys)}
Rerun(fsys, wr) ==
  main(inv.cmd, inv.args, inv.flag, inv.env, fsys, apiResp, wr)

C8_DialoguePrintsAllChoices ==
  (Ran /\ inv.cmd = "dialogue" /\ ApiSucceeded) =>
    /\ StdoutLines = apiResp.items
    /\ \A i \in 1..Len(Stdout) : Stdout[i].s = ""
    /\ Len(Stderr) = 0 /\ Len(Panics) = 0
    /\ exit = 0
C8_Witness ==
  /\ Ran /\ inv.cmd = "dialogue" /\ ApiSucceeded
  /\ Len(apiResp.items) = 2 /\ apiResp.items[1] # apiResp.items[2]
  /\ Len(Stdout) = 2

\* C9: whenever a handler runs, the argument list is as long as the highest
\* argument it reads, so no run reaches an out-of-range argument read.
C9_ArgsInRange ==
  (Ran /\ KeyResolved) =>
    /\ Len(inv.args) >= ArgsRead(inv.cmd)
    /\ \A i \in 1..Len(Panics) : Panics[i].s # ArgOutOfRange

\* C10: a successful response with an empty result list leads to a reported
\* fatal error in every handler that reads the first result, never to an
\* out-of-range read.
C10_EmptyResultIsFatal ==
  (Ran /\ EmptyResult) =>
    /\ Len(Panics) = 0
    /\ exit = 1 /\ Len(Stderr) = 1

====
